---- MODULE Spec2Model ----
(***************************************************************************)
(* Model of the music job service of src/main.py: the POST /music handler  *)
(* (music_api), the background job (process_song) it starts in a daemon    *)
(* thread, and the songs collection both of them write.                    *)
(*                                                                         *)
(* Strings are sequences of characters; a request handler and a background *)
(* job advance one store operation or one collaborator call at a time, so  *)
(* every interleaving of concurrent handlers and jobs is a behaviour.      *)
(***************************************************************************)
EXTENDS Integers, Sequences, FiniteSets, TLC

\* ------------------------------------------------------------------------
\* Bounds
\* ------------------------------------------------------------------------

\* Number of POST /music requests of one behaviour.
MaxReq == 2

\* Longest raw query string.
MaxLen == 1

\* Longest raw query string of the normalisation check.
NormLen == 3

\* ------------------------------------------------------------------------
\* Values
\* ------------------------------------------------------------------------

\* The characters of a query: whitespace, a lower-case and an upper-case letter.
Chars == {" ", "a", "A"}

\* data.get("query") of a body without the key; also a string local that is
\* not assigned yet. It is no string over Chars.
Missing == <<"None">>

\* Every string of at most MaxLen characters.
Strings == UNION {[1..n -> Chars] : n \in 0..MaxLen}

\* The request bodies: a query string, or no query at all.
RawQueries == Strings \cup {Missing}

\* What the translator may answer.
Terms == {"t1", "t2"}

\* A text field that a document or a local variable does not have.
None == "none"

\* A path, file id or URL that a document or a local variable does not have.
NoFile == <<>>

\* find_one returned no document.
NoDoc == [status |-> "absent", final_query |-> None, file_url |-> NoFile, error |-> None]

\* The handler has not answered yet.
NoResp == [status |-> "none"]

Req == 1..MaxReq

\* ------------------------------------------------------------------------
\* Normalisation: raw_query.strip().lower()
\* ------------------------------------------------------------------------

IsSpace(c) == c = " "

RECURSIVE LStrip(_)
LStrip(s) == IF s # <<>> /\ IsSpace(Head(s)) THEN LStrip(Tail(s)) ELSE s

RECURSIVE RStrip(_)
RStrip(s) ==
    IF s # <<>> /\ IsSpace(s[Len(s)]) THEN RStrip(SubSeq(s, 1, Len(s) - 1)) ELSE s

\* lstrip() in place of strip(): trailing whitespace stays.
StripLeftOnly(s) == LStrip(s)

Strip(s) == RStrip(LStrip(s))

LowerChar(c) == IF c = "A" THEN "a" ELSE c

Lower(s) == [i \in 1..Len(s) |-> LowerChar(s[i])]

Normalize(raw) == Lower(Strip(raw))

\* The keys a request can produce.
Keys == {Normalize(s) : s \in Strings}

\* ------------------------------------------------------------------------
\* State
\* ------------------------------------------------------------------------

VARIABLES
    req,      \* req[i]: the handler of the i-th request: position and locals
    songs,    \* the songs collection: key -> document, or NoDoc
    runners,  \* the process_song threads started so far, in start order
    tmp,      \* the files under tmp/
    seen      \* seen[k]: the last answer a client polling key k was given

vars == <<req, songs, runners, tmp, seen>>

\* A handler's locals. raw_query is live until it is normalised, final_query
\* until the thread is started; a handler that returned keeps its key, its
\* response and the thread it started (0: none).
IdleReq ==
    [pc |-> "idle", raw |-> Missing, user_query |-> Missing,
     final_query |-> None, resp |-> NoResp, thread |-> 0]

Init ==
    /\ req = [i \in Req |-> IdleReq]
    /\ songs = [k \in Keys |-> NoDoc]
    /\ runners = <<>>
    /\ tmp = {}
    /\ seen = [k \in Keys |-> "none"]

\* ------------------------------------------------------------------------
\* Responses
\* ------------------------------------------------------------------------

QueryRequired == [error |-> "query required"]
Processing == [status |-> "processing"]
ErrorStatus == [status |-> "error"]
Cached(url) == [status |-> "cached", file_url |-> url]
\* gemini_match raised: the handler returns nothing, the framework answers 500.
ServerError == [raised |-> "translator"]

\* ------------------------------------------------------------------------
\* The collection
\* ------------------------------------------------------------------------

\* update_one({"user_query": k}, {"$set": fields}, upsert=True)
UpdateOne(k, fields) ==
    [songs EXCEPT ![k] =
        [f \in DOMAIN NoDoc |-> IF f \in DOMAIN fields THEN fields[f] ELSE @[f]]]

\* ------------------------------------------------------------------------
\* music_api
\* ------------------------------------------------------------------------

\* The check written as `raw_query is None`: the empty string passes.
FalsyNoneOnly(raw) == raw = Missing

\* `not raw_query`
Falsy(raw) == raw = Missing \/ raw = <<>>

\* A request arrives with its body.
Receive(i, raw) ==
    /\ req[i].pc = "idle"
    /\ i > 1 => req[i - 1].pc # "idle"
    /\ req' = [req EXCEPT ![i].pc = "validate", ![i].raw = raw]
    /\ UNCHANGED <<songs, runners, tmp, seen>>

\* The check of the query and its normalisation.
Validate(i) ==
    /\ req[i].pc = "validate"
    /\ IF Falsy(req[i].raw)
       THEN req' = [req EXCEPT ![i].pc = "done", ![i].raw = Missing,
                               ![i].resp = QueryRequired]
       ELSE req' = [req EXCEPT ![i].pc = "find", ![i].raw = Missing,
                               ![i].user_query = Normalize(req[i].raw)]
    /\ UNCHANGED <<songs, runners, tmp, seen>>

\* The answer of the error branch given for a record in processing.
DispatchProcessingAsError(song) ==
    CASE song.status = "ready" -> [pc |-> "done", resp |-> Cached(song.file_url)]
      [] song.status = "processing" -> [pc |-> "done", resp |-> ErrorStatus]
      [] song.status = "error" -> [pc |-> "done", resp |-> ErrorStatus]
      [] OTHER -> [pc |-> "translate", resp |-> NoResp]

\* A record in processing taken for stale and claimed again.
DispatchReclaimsProcessing(song) ==
    CASE song.status = "ready" -> [pc |-> "done", resp |-> Cached(song.file_url)]
      [] song.status = "error" -> [pc |-> "done", resp |-> ErrorStatus]
      [] OTHER -> [pc |-> "translate", resp |-> NoResp]

\* A record in error claimed again, as for a key without a record.
DispatchErrorReentry(song) ==
    CASE song.status = "ready" -> [pc |-> "done", resp |-> Cached(song.file_url)]
      [] song.status = "processing" -> [pc |-> "done", resp |-> Processing]
      [] OTHER -> [pc |-> "translate", resp |-> NoResp]

\* The branch on status ready left out: a ready record is claimed again.
DispatchNoCache(song) ==
    CASE song.status = "processing" -> [pc |-> "done", resp |-> Processing]
      [] song.status = "error" -> [pc |-> "done", resp |-> ErrorStatus]
      [] OTHER -> [pc |-> "translate", resp |-> NoResp]

\* What the handler does with the document find_one returned.
Dispatch(song) ==
    CASE song.status = "ready" -> [pc |-> "done", resp |-> Cached(song.file_url)]
      [] song.status = "processing" -> [pc |-> "done", resp |-> Processing]
      [] song.status = "error" -> [pc |-> "done", resp |-> ErrorStatus]
      [] OTHER -> [pc |-> "translate", resp |-> NoResp]

\* songs.find_one and the branch on the document's status.
Find(i) ==
    /\ req[i].pc = "find"
    /\ LET d == Dispatch(songs[req[i].user_query])
       IN req' = [req EXCEPT ![i].pc = d.pc, ![i].resp = d.resp]
    /\ UNCHANGED <<songs, runners, tmp, seen>>

\* gemini_match returns a search term.
Translate(i, term) ==
    /\ req[i].pc = "translate"
    /\ req' = [req EXCEPT ![i].pc = "write", ![i].final_query = term]
    /\ UNCHANGED <<songs, runners, tmp, seen>>

\* The translator's failure stored as the job's state.
TranslateFailsStoresError(i) ==
    /\ req[i].pc = "translate"
    /\ songs' = UpdateOne(req[i].user_query, [status |-> "error", error |-> "translator"])
    /\ req' = [req EXCEPT ![i].pc = "done", ![i].resp = ServerError]
    /\ UNCHANGED <<runners, tmp, seen>>

\* gemini_match raises.
TranslateFails(i) ==
    /\ req[i].pc = "translate"
    /\ req' = [req EXCEPT ![i].pc = "done", ![i].resp = ServerError]
    /\ UNCHANGED <<songs, runners, tmp, seen>>

\* The fields the handler sets before it starts the thread.
ClaimFields(final_query) == [status |-> "processing", final_query |-> final_query]

\* songs.update_one(..., status processing, upsert)
WriteProcessing(i) ==
    /\ req[i].pc = "write"
    /\ songs' = UpdateOne(req[i].user_query, ClaimFields(req[i].final_query))
    /\ req' = [req EXCEPT ![i].pc = "spawn"]
    /\ UNCHANGED <<runners, tmp, seen>>

NewRunner(user_query, final_query) ==
    [pc |-> "download", user_query |-> user_query, final_query |-> final_query,
     path |-> NoFile, file_id |-> NoFile, file_url |-> NoFile, error |-> None]

\* The thread started straight after the translation, ahead of the write.
StartThreadBeforeWrite(i) ==
    /\ req[i].pc \in {"write", "spawn"}
    /\ runners' = Append(runners, NewRunner(req[i].user_query, req[i].final_query))
    /\ req' = [req EXCEPT ![i].pc = "done", ![i].resp = Processing,
                          ![i].final_query = None, ![i].thread = Len(runners) + 1]
    /\ UNCHANGED <<songs, tmp, seen>>

\* threading.Thread(target=process_song, ...).start() and the return.
StartThread(i) ==
    /\ req[i].pc = "spawn"
    /\ runners' = Append(runners, NewRunner(req[i].user_query, req[i].final_query))
    /\ req' = [req EXCEPT ![i].pc = "done", ![i].resp = Processing,
                          ![i].final_query = None, ![i].thread = Len(runners) + 1]
    /\ UNCHANGED <<songs, tmp, seen>>

\* ------------------------------------------------------------------------
\* process_song
\* ------------------------------------------------------------------------

\* The background jobs started so far.
Runners == DOMAIN runners

\* Every request starts at most one background job.
RunnerIds == 1..MaxReq

\* download_song: yt-dlp wrote tmp/<uuid>.mp3
Download(r) ==
    /\ r \in Runners
    /\ runners[r].pc = "download"
    /\ runners' = [runners EXCEPT ![r].pc = "upload", ![r].path = <<"tmp", r>>]
    /\ tmp' = tmp \cup {<<"tmp", r>>}
    /\ UNCHANGED <<req, songs, seen>>

\* download_song: yt-dlp exited non-zero (check=True raises)
DownloadFails(r) ==
    /\ r \in Runners
    /\ runners[r].pc = "download"
    /\ runners' = [runners EXCEPT ![r].pc = "write_error", ![r].error = "download"]
    /\ UNCHANGED <<req, songs, tmp, seen>>

\* The file id sendAudio answers for the audio it received.
FileId(path) == <<"file_id", path[2]>>

\* The URL built from the file path that getFile answers for a file id.
FileUrl(file_id) == <<"url", file_id[2]>>

\* upload_to_telegram and get_file_url: the storage bot answered both calls.
Upload(r) ==
    /\ r \in Runners
    /\ runners[r].pc = "upload"
    /\ runners' = [runners EXCEPT ![r].pc = "write_ready",
                                  ![r].file_id = FileId(runners[r].path),
                                  ![r].file_url = FileUrl(FileId(runners[r].path))]
    /\ UNCHANGED <<req, songs, tmp, seen>>

\* upload_to_telegram raises (request failed, or no result in the answer)
UploadFails(r) ==
    /\ r \in Runners
    /\ runners[r].pc = "upload"
    /\ runners' = [runners EXCEPT ![r].pc = "write_error", ![r].error = "upload"]
    /\ UNCHANGED <<req, songs, tmp, seen>>

\* get_file_url raises after the upload went through
GetFileUrlFails(r) ==
    /\ r \in Runners
    /\ runners[r].pc = "upload"
    /\ runners' = [runners EXCEPT ![r].pc = "write_error",
                                  ![r].file_id = FileId(runners[r].path),
                                  ![r].error = "get_file_url"]
    /\ UNCHANGED <<req, songs, tmp, seen>>

\* The success write without final_query: the term of the last claim stays.
ReadyFieldsNoQuery(r) == [status |-> "ready", file_url |-> runners[r].file_url]

\* The success write storing the storage bot's file id in place of the URL.
ReadyFieldsFileId(r) ==
    [status |-> "ready", final_query |-> runners[r].final_query,
     file_url |-> runners[r].file_id]

\* The fields of the success write.
ReadyFields(r) ==
    [status |-> "ready", final_query |-> runners[r].final_query,
     file_url |-> runners[r].file_url]

\* The except branch recording the status without the cause.
ErrorFieldsNoDetail(r) == [status |-> "error"]

\* The fields of the write in the except branch.
ErrorFields(r) == [status |-> "error", error |-> runners[r].error]

\* songs.update_one(..., status ready, upsert)
WriteReady(r) ==
    /\ r \in Runners
    /\ runners[r].pc = "write_ready"
    /\ songs' = UpdateOne(runners[r].user_query, ReadyFields(r))
    /\ runners' = [runners EXCEPT ![r].pc = "done"]
    /\ UNCHANGED <<req, tmp, seen>>

\* songs.update_one(..., status error, upsert)
WriteError(r) ==
    /\ r \in Runners
    /\ runners[r].pc = "write_error"
    /\ songs' = UpdateOne(runners[r].user_query, ErrorFields(r))
    /\ runners' = [runners EXCEPT ![r].pc = "done"]
    /\ UNCHANGED <<req, tmp, seen>>

\* ------------------------------------------------------------------------
\* Specifications
\* ------------------------------------------------------------------------

HandlerStep(i) ==
    \/ Validate(i)
    \/ Find(i)
    \/ \E term \in Terms : Translate(i, term)
    \/ TranslateFails(i)
    \/ WriteProcessing(i)
    \/ StartThread(i)

RunnerStep(r) ==
    \/ Download(r)
    \/ DownloadFails(r)
    \/ Upload(r)
    \/ UploadFails(r)
    \/ GetFileUrlFails(r)
    \/ WriteReady(r)
    \/ WriteError(r)

Next ==
    \/ \E i \in Req, raw \in RawQueries : Receive(i, raw)
    \/ \E i \in Req : HandlerStep(i)
    \/ \E r \in RunnerIds : RunnerStep(r)

\* Concurrent requests: any interleaving of handlers and background jobs.
Spec == Init /\ [][Next]_vars

\* No handler is running.
NoHandlerRunning == \A j \in Req : req[j].pc \in {"idle", "done"}

\* A request arrives when no other request is being handled.
ReceiveSeq(i, raw) == NoHandlerRunning /\ Receive(i, raw)

NextSeq ==
    \/ \E i \in Req, raw \in RawQueries : ReceiveSeq(i, raw)
    \/ \E i \in Req : HandlerStep(i)
    \/ \E r \in RunnerIds : RunnerStep(r)

\* Sequential requests: one handler at a time, background jobs still concurrent.
SpecSeq == Init /\ [][NextSeq]_vars

\* A polling client posts a query of key k and is answered from the record:
\* the handler from its find_one to its return, which is one collection read.
\* (A poll that finds no record is a request of Receive on the claiming path.)
Poll(k) ==
    /\ Dispatch(songs[k]).pc = "done"
    /\ seen' = [seen EXCEPT ![k] = Dispatch(songs[k]).resp.status]
    /\ UNCHANGED <<req, songs, runners, tmp>>

NextPoll ==
    \/ \E i \in Req, raw \in RawQueries : Receive(i, raw)
    \/ \E i \in Req : HandlerStep(i)
    \/ \E r \in RunnerIds : RunnerStep(r)
    \/ \E k \in Keys : Poll(k)

\* Every handler and every background job that can take a step eventually
\* takes one: threads are scheduled fairly and collaborator calls return.
Fairness ==
    /\ \A i \in Req : WF_vars(HandlerStep(i))
    /\ \A r \in RunnerIds : WF_vars(RunnerStep(r))

\* Concurrent requests and a polling client, under fair scheduling.
SpecPoll == Init /\ [][NextPoll]_vars /\ Fairness

\* Every string of at most NormLen characters.
NormInputs == UNION {[1..n -> Chars] : n \in 0..NormLen}

\* A request with a body from NormInputs arrives once the request before it
\* has been normalised.
ReceiveNorm(i, raw) ==
    /\ i > 1 => req[i - 1].pc \in {"find", "done"}
    /\ Receive(i, raw)

NextNorm ==
    \/ \E i \in Req, raw \in NormInputs : ReceiveNorm(i, raw)
    \/ \E i \in Req : Validate(i)

\* Normalisation alone: requests are received and normalised, nothing else.
SpecNorm == Init /\ [][NextNorm]_vars

\* ------------------------------------------------------------------------
\* Vocabulary of the properties
\* ------------------------------------------------------------------------

\* The background jobs of key k.
RunnersOf(k) == {r \in Runners : runners[r].user_query = k}

\* The background jobs of key k that have not made their terminal write.
InFlight(k) == {r \in RunnersOf(k) : runners[r].pc # "done"}

\* The first background job started for key k.
FirstAttempt(k) == CHOOSE r \in RunnersOf(k) : \A q \in RunnersOf(k) : r <= q

\* Background job r fetched, uploaded and wrote ready.
Succeeded(r) == runners[r].pc = "done" /\ runners[r].error = None

IsCached(resp) == DOMAIN resp = {"status", "file_url"}

\* The handler of request i takes a step.
Steps(i) == req'[i] # req[i]

\* Background job r makes its terminal write.
TerminalWrite(r) ==
    runners[r].pc \in {"write_ready", "write_error"} /\ runners'[r].pc = "done"

EmptyKey == <<>>

\* A non-empty string of whitespace.
WhitespaceOnly(raw) ==
    /\ raw # <<>>
    /\ \A j \in 1..Len(raw) : raw[j] = " "

\* The handler is between its find_one and its return, on the path that
\* starts a background job.
OnClaimPath(i) == req[i].pc \in {"translate", "write", "spawn"}

\* ------------------------------------------------------------------------
\* C1. For every key at most one background job is in flight at any time,
\* also when several requests for one unseen key are handled concurrently.
\* ------------------------------------------------------------------------
C1_SingleRunnerPerKey == \A k \in Keys : Cardinality(InFlight(k)) <= 1

\* ------------------------------------------------------------------------
\* C2. A request that reads a record with status error, with no background
\* job of that key in flight, goes on to translate, write processing and
\* start a new background job.
\* ------------------------------------------------------------------------
C2_ErrorReentry ==
    [][\A i \in Req :
          ( /\ req[i].pc = "find"
            /\ Steps(i)
            /\ songs[req[i].user_query].status = "error"
            /\ InFlight(req[i].user_query) = {} )
          => req'[i].pc = "translate"]_vars

\* ------------------------------------------------------------------------
\* C3. Once a record is ready it stays ready and keeps its file_url.
\* ------------------------------------------------------------------------
C3_ReadyIsStable ==
    [][\A k \in Keys :
          songs[k].status = "ready"
          => songs'[k].status = "ready" /\ songs'[k].file_url = songs[k].file_url]_vars

\* ------------------------------------------------------------------------
\* C4. A background job's terminal write takes effect only if the record's
\* status is processing at write time; otherwise the record is left as the
\* newer attempt wrote it.
\* ------------------------------------------------------------------------
C4_StaleWriteRejected ==
    [][\A r \in Runners :
          (TerminalWrite(r) /\ songs[runners[r].user_query].status # "processing")
          => songs' = songs]_vars

\* ------------------------------------------------------------------------
\* C5. A record has a file_url if and only if its status is ready.
\* ------------------------------------------------------------------------
C5_UrlIffReady ==
    \A k \in Keys : (songs[k].file_url # NoFile) <=> (songs[k].status = "ready")

\* ------------------------------------------------------------------------
\* C6. Every change of a record's status is absent -> processing,
\* processing -> ready, processing -> error or error -> processing.
\* ------------------------------------------------------------------------
ValidTransitions ==
    {<<"absent", "processing">>, <<"processing", "ready">>,
     <<"processing", "error">>, <<"error", "processing">>}

C6_OnlyValidTransitions ==
    [][\A k \in Keys :
          songs'[k].status # songs[k].status
          => <<songs[k].status, songs'[k].status>> \in ValidTransitions]_vars

\* ------------------------------------------------------------------------
\* C7. With requests handled one after the other: a request that reads a
\* ready record returns cached with the file_url the first attempt of that
\* key got from storage, and it translates nothing, starts no background job
\* and leaves the collection, the jobs and the files as they are; having
\* returned, the handler does nothing more.
\* ------------------------------------------------------------------------
C7_SequentialCacheHit ==
    /\ [][\A i \in Req :
             (req[i].pc = "find" /\ Steps(i) /\ songs[req[i].user_query].status = "ready")
             => /\ req'[i].pc = "done"
                /\ req'[i].resp = Cached(runners[FirstAttempt(req[i].user_query)].file_url)
                /\ Succeeded(FirstAttempt(req[i].user_query))
                /\ req'[i].final_query = None
                /\ req'[i].thread = 0
                /\ UNCHANGED <<songs, runners, tmp>>]_vars
    /\ [][\A i \in Req : req[i].pc = "done" => req'[i] = req[i]]_vars

\* A second request answered from the cache with the URL of the job the
\* first request started.
C7_Witness ==
    \E i, j \in Req :
        /\ i < j
        /\ req[i].thread # 0
        /\ req[j].pc = "done"
        /\ req[j].user_query = req[i].user_query
        /\ req[j].resp = Cached(runners[req[i].thread].file_url)

\* ------------------------------------------------------------------------
\* C8. A request that finds no record answers processing (or aborts when the
\* translator raises) and never cached or error; a cached answer is given
\* only when a background job of that key has fetched, uploaded and written
\* ready, and its file_url is a URL storage returned to a job of that key.
\* ------------------------------------------------------------------------
C8_CachedOnlyAfterPipeline ==
    /\ [][\A i \in Req :
             /\ (req[i].pc = "find" /\ Steps(i) /\ songs[req[i].user_query] = NoDoc)
                => (req'[i].pc = "translate" /\ req'[i].resp = NoResp)
             /\ (OnClaimPath(i) /\ Steps(i))
                => \/ req'[i].pc \in {"write", "spawn"} /\ req'[i].resp = NoResp
                   \/ req'[i].pc = "done" /\ req'[i].resp \in {Processing, ServerError}]_vars
    /\ [](\A i \in Req :
             (req[i].pc = "done" /\ IsCached(req[i].resp))
             => \E r \in RunnersOf(req[i].user_query) :
                   /\ Succeeded(r)
                   /\ runners[r].file_url # NoFile
                   /\ runners[r].file_url = req[i].resp.file_url)

\* The first request was answered processing and started the first job; a
\* later request is answered from the ready record.
C8_Witness ==
    /\ req[1].pc = "done"
    /\ req[1].resp = Processing
    /\ req[1].thread = 1
    /\ \E i \in Req :
          /\ req[i].pc = "done"
          /\ IsCached(req[i].resp)
          /\ songs[req[i].user_query].status = "ready"

\* ------------------------------------------------------------------------
\* C9. A request whose query is missing or empty returns the error
\* "query required" without reading or writing the collection, calling the
\* translator or starting a background job; having returned, the handler
\* does nothing more.
\* ------------------------------------------------------------------------
C9_EmptyQueryRejected ==
    /\ [][\A i \in Req :
             (req[i].pc = "validate" /\ Steps(i) /\ req[i].raw \in {Missing, <<>>})
             => /\ req'[i].pc = "done"
                /\ req'[i].resp = QueryRequired
                /\ req'[i].user_query = Missing
                /\ req'[i].final_query = None
                /\ req'[i].thread = 0
                /\ UNCHANGED <<songs, runners, tmp>>]_vars
    /\ [][\A i \in Req : req[i].pc = "done" => req'[i] = req[i]]_vars

\* A request was rejected while the collection held a record.
C9_Witness ==
    \E i \in Req :
        /\ req[i].pc = "done"
        /\ req[i].resp = QueryRequired
        /\ \E k \in Keys : songs[k] # NoDoc

\* ------------------------------------------------------------------------
\* C10. A request whose query is non-empty whitespace is rejected like the
\* empty query, and the collection never holds a record with the empty key.
\* ------------------------------------------------------------------------
C10_WhitespaceRejected ==
    /\ [][\A i \in Req :
             (req[i].pc = "validate" /\ Steps(i) /\ WhitespaceOnly(req[i].raw))
             => req'[i].pc = "done" /\ req'[i].resp = QueryRequired]_vars
    /\ [](songs[EmptyKey] = NoDoc)

\* ------------------------------------------------------------------------
\* C11. When the translator call fails, the request aborts with an error
\* response and the collection is as it was before the request: no step of
\* the handler up to and including the failed call writes a record, starts
\* a background job or creates a file, the aborted handler does nothing
\* more, and a record exists only for a key that some request claimed after
\* a successful translation, so a retry finds what a first request finds.
\* ------------------------------------------------------------------------
C11_TranslatorFailureLeavesNoTrace ==
    /\ [][\A i \in Req :
             /\ (req[i].pc = "translate" /\ Steps(i) /\ req'[i].final_query = None)
                => /\ req'[i].pc = "done"
                   /\ req'[i].resp = ServerError
                   /\ req'[i].thread = 0
             /\ (req[i].pc \in {"idle", "validate", "find", "translate"} /\ Steps(i))
                => UNCHANGED <<songs, runners, tmp>>
             /\ (req[i].pc = "done" /\ req[i].resp = ServerError)
                => req'[i] = req[i]]_vars
    /\ [](\A k \in Keys :
             songs[k] # NoDoc
             => \E i \in Req :
                   /\ req[i].user_query = k
                   /\ req[i].pc = "spawn" \/ req[i].thread # 0)

\* A request aborted by the translator, the key still without a record, and
\* a retry for that key on the claiming path.
C11_Witness ==
    \E i, j \in Req :
        /\ i < j
        /\ req[i].pc = "done"
        /\ req[i].resp = ServerError
        /\ req[j].user_query = req[i].user_query
        /\ req[j].pc = "translate"
        /\ songs[req[i].user_query] = NoDoc

\* ------------------------------------------------------------------------
\* C12. A failure of the fetch or of the upload inside a background job is
\* not propagated: the job goes on to write status error with the cause to
\* its key's record and ends. No step of the job touches a handler; the
\* request that started the job has returned processing and its response
\* never changes.
\* ------------------------------------------------------------------------
C12_RunnerAbsorbsFailure ==
    /\ [][\A r \in Runners :
             /\ (runners[r].pc \in {"download", "upload"} /\ runners'[r].error # None)
                => /\ runners'[r].pc = "write_error"
                   /\ UNCHANGED <<req, songs>>
             /\ (runners[r].pc = "write_error" /\ runners'[r] # runners[r])
                => /\ runners'[r].pc = "done"
                   /\ songs'[runners[r].user_query].status = "error"
                   /\ songs'[runners[r].user_query].error = runners[r].error
                   /\ UNCHANGED req]_vars
    /\ [][\A i \in Req : req[i].thread # 0 => req'[i] = req[i]]_vars
    /\ [](\A r \in Runners :
             runners[r].error # None => runners[r].pc \in {"write_error", "done"})
    /\ [](\A i \in Req :
             req[i].thread # 0 => req[i].pc = "done" /\ req[i].resp = Processing)

\* A job that failed and ended, its cause in the record, the request that
\* started it answered processing.
C12_Witness ==
    \E r \in Runners, i \in Req :
        /\ runners[r].pc = "done"
        /\ runners[r].error # None
        /\ songs[runners[r].user_query].status = "error"
        /\ songs[runners[r].user_query].error = runners[r].error
        /\ req[i].thread = r
        /\ req[i].resp = Processing

\* ------------------------------------------------------------------------
\* C13. Under fair scheduling a client polling one key is answered
\* processing zero or more times and then cached or error: after cached or
\* error it is not answered processing again, unless the key has been in
\* error (only then can a new attempt have started from error); and every
\* record in processing eventually is ready or error.
\* ------------------------------------------------------------------------
C13_PollingLifecycle ==
    /\ [][\A k \in Keys :
             (seen[k] \in {"cached", "error"} /\ seen'[k] = "processing")
             => songs[k].error # None]_vars
    /\ \A k \in Keys :
          (songs[k].status = "processing") ~> (songs[k].status \in {"ready", "error"})

\* The liveness half of C13 alone: every record in processing eventually is
\* ready or error.
C13_EventuallyTerminal ==
    \A k \in Keys :
        (songs[k].status = "processing") ~> (songs[k].status \in {"ready", "error"})

\* ------------------------------------------------------------------------
\* C14. A request that reads a record with status error answers
\* {"status": "error"}.
\* ------------------------------------------------------------------------
C14_ErrorObserved ==
    [][\A i \in Req :
          (req[i].pc = "find" /\ Steps(i) /\ songs[req[i].user_query].status = "error")
          => req'[i].pc = "done" /\ req'[i].resp = ErrorStatus]_vars

\* A request answered with the error status of a record a failed job wrote.
C14_Witness ==
    \E i \in Req :
        /\ req[i].pc = "done"
        /\ req[i].resp = ErrorStatus
        /\ songs[req[i].user_query].status = "error"

\* ------------------------------------------------------------------------
\* C15. Once a background job has ended, the temporary audio file it
\* created no longer exists.
\* ------------------------------------------------------------------------
C15_TempFileRemoved ==
    \A r \in Runners : runners[r].pc = "done" => runners[r].path \notin tmp

\* ------------------------------------------------------------------------
\* C16. A background job is started exactly once per processing-write of a
\* claiming request and only after that write; the job makes a single
\* terminal write, after the processing-write of its attempt, and never for
\* a key without a record.
\* ------------------------------------------------------------------------
C16_RunnerPerClaim ==
    /\ [][\A i \in Req :
             /\ (req[i].pc = "write" /\ Steps(i))
                => /\ req'[i].pc = "spawn"
                   /\ songs'[req[i].user_query].status = "processing"
                   /\ runners' = runners
             /\ (req[i].pc = "spawn" /\ Steps(i))
                => /\ req'[i].pc = "done"
                   /\ req'[i].thread = Len(runners) + 1
                   /\ runners' =
                        Append(runners, NewRunner(req[i].user_query, req[i].final_query))]_vars
    /\ [][runners' # runners /\ Len(runners') # Len(runners)
            => \E i \in Req : req[i].pc = "spawn" /\ Steps(i)]_vars
    /\ [][\A r \in Runners :
             /\ TerminalWrite(r) => songs[runners[r].user_query] # NoDoc
             /\ runners[r].pc = "done" => runners'[r] = runners[r]]_vars
    /\ [](\A r \in Runners :
             /\ Cardinality({i \in Req : req[i].thread = r}) = 1
             /\ songs[runners[r].user_query] # NoDoc)

\* A job that made its terminal write, started by one request, on a record
\* that request had written.
C16_Witness ==
    \E r \in Runners, i \in Req :
        /\ req[i].thread = r
        /\ runners[r].pc = "done"
        /\ songs[runners[r].user_query].status \in {"ready", "error"}
        /\ songs[runners[r].user_query].final_query = runners[r].final_query

\* ------------------------------------------------------------------------
\* C17. A request that reads a record with status processing answers
\* processing, calls no translator, starts no background job and leaves the
\* record as it is; having answered, the handler does nothing more.
\* ------------------------------------------------------------------------
C17_ProcessingObserved ==
    [][\A i \in Req :
          /\ (req[i].pc = "find" /\ Steps(i)
                 /\ songs[req[i].user_query].status = "processing")
             => /\ req'[i].pc = "done"
                /\ req'[i].resp = Processing
                /\ req'[i].final_query = None
                /\ req'[i].thread = 0
                /\ UNCHANGED <<songs, runners, tmp>>
          /\ (req[i].pc = "done" /\ req[i].resp = Processing)
             => req'[i] = req[i]]_vars

\* A request answered processing that started no background job.
C17_Witness ==
    \E i \in Req :
        /\ req[i].pc = "done"
        /\ req[i].resp = Processing
        /\ req[i].thread = 0
        /\ songs[req[i].user_query].status = "processing"

\* ------------------------------------------------------------------------
\* C18. As long as no background job of a key makes its terminal write, the
\* key's record stays in status processing, and every request that reads it
\* meanwhile is answered processing, starts no background job and does not
\* change the record.
\* ------------------------------------------------------------------------
C18_StuckInProcessing ==
    [][\A k \in Keys :
          (songs[k].status = "processing" /\ \A r \in RunnersOf(k) : ~TerminalWrite(r))
          => /\ songs'[k].status = "processing"
             /\ \A i \in Req :
                   (req[i].pc = "find" /\ req[i].user_query = k /\ Steps(i))
                   => /\ req'[i] = [req[i] EXCEPT !.pc = "done", !.resp = Processing]
                      /\ songs'[k] = songs[k]
                      /\ runners' = runners]_vars

\* The job of a key has not got beyond its download, and a second request
\* for that key was answered processing without starting a job.
C18_Witness ==
    \E i \in Req, r \in Runners :
        /\ runners[r].pc = "download"
        /\ InFlight(runners[r].user_query) = {r}
        /\ req[i].user_query = runners[r].user_query
        /\ req[i].pc = "done"
        /\ req[i].thread = 0
        /\ req[i].resp = Processing

\* ------------------------------------------------------------------------
\* C19. The key is the raw query trimmed and lower-cased: raw queries that
\* differ only in letter case and in leading or trailing whitespace get the
\* same key, and normalising a key gives the key again.
\* ------------------------------------------------------------------------

\* The same character up to letter case.
SameLetter(c, d) == c = d \/ {c, d} = {"a", "A"}

\* t is s with letters changed in case and whitespace added before and after.
PaddedCaseVariant(t, s) ==
    \E m \in 0..Len(t) :
        /\ m + Len(s) <= Len(t)
        /\ \A j \in 1..Len(t) :
              IF j <= m \/ j > m + Len(s)
              THEN t[j] = " "
              ELSE SameLetter(t[j], s[j - m])

\* No whitespace at either end and no upper-case letter.
TrimmedLower(s) ==
    /\ s # <<>> => (s[1] # " " /\ s[Len(s)] # " ")
    /\ \A j \in 1..Len(s) : s[j] # "A"

C19_NormalizeKey ==
    /\ [][\A i \in Req :
             (req[i].pc = "validate" /\ Steps(i) /\ req[i].raw \notin {Missing, <<>>})
             => /\ TrimmedLower(req'[i].user_query)
                /\ PaddedCaseVariant(req[i].raw, req'[i].user_query)
                /\ Normalize(req'[i].user_query) = req'[i].user_query]_vars
    /\ [](\A i, j \in Req :
             ( /\ req[i].pc = "find"
               /\ req[j].pc = "validate"
               /\ req[j].raw # <<>>
               /\ PaddedCaseVariant(req[j].raw, req[i].user_query) )
             => Normalize(req[j].raw) = req[i].user_query)

\* One request got the key "a"; another arrives with the same letter in
\* upper case between two blanks.
C19_Witness ==
    \E i, j \in Req :
        /\ req[i].pc = "find"
        /\ req[i].user_query = <<"a">>
        /\ req[j].pc = "validate"
        /\ req[j].raw = <<" ", "A", " ">>
        /\ Normalize(req[j].raw) = req[i].user_query

\* ------------------------------------------------------------------------
\* C20. Whenever a record is ready, its final_query and its file_url were
\* written by one background job of that key: the file_url is the URL that
\* job got for the audio it fetched for the stored final_query, whatever
\* the interleaving and whatever terms the translator returned.
\* ------------------------------------------------------------------------

\* The background job whose upload the URL names.
JobOfUrl(url) == url[2]

C20_ReadyRecordConsistent ==
    \A k \in Keys :
        songs[k].status = "ready"
        => /\ songs[k].file_url # NoFile
           /\ JobOfUrl(songs[k].file_url) \in RunnersOf(k)
           /\ Succeeded(JobOfUrl(songs[k].file_url))
           /\ runners[JobOfUrl(songs[k].file_url)].file_url = songs[k].file_url
           /\ runners[JobOfUrl(songs[k].file_url)].final_query = songs[k].final_query

\* A ready record of a key for which two jobs ran with different terms.
C20_Witness ==
    \E k \in Keys :
        /\ songs[k].status = "ready"
        /\ \E r, q \in RunnersOf(k) : runners[r].final_query # runners[q].final_query

====
